---- MODULE Spec2Model ----
(***************************************************************************)
(* Verification development for the ARR Truing-Up Decision Support System: *)
(* the Variance & Sharing Engine (src/src/GainLossSharingModule.ts), the   *)
(* verification gate in front of it and the audit store behind it.         *)
(*                                                                         *)
(* Numbers.  The engine computes on JavaScript numbers (binary floating    *)
(* point, round to nearest, ties to even).  A number is modelled as a      *)
(* record [m, e] standing for m * 2^e with |m| < 2^Precision, kept in the  *)
(* canonical form "m odd, or m = 0 and e = 0", so that equality of numbers *)
(* is equality of records.  Precision is the width of the significand; the *)
(* exponent is unbounded (no input of the model overflows or underflows).  *)
(* approved - actual is never -0 under round to nearest, and every product *)
(* of the engine has a non-negative left factor, so no signed zero is      *)
(* needed.                                                                 *)
(***************************************************************************)
EXTENDS Integers, Sequences, FiniteSets, TLC

VARIABLES
    suggestions,   \* gate: sequence of MappingSuggestions, mapping_id = position
    decisionLog,   \* gate: the log of decisions (who, when, from, to, comment)
    call,          \* per client: the decide() call in flight or just answered
    raced,         \* history: both clients' calls were in flight together on one Pending suggestion
    costInputs,    \* CostInputs produced by the gate, waiting for the engine
    engineConfig,  \* GainLossSharingEngine.config of the constructed engine
    probe,         \* the CostInput under study (drawn by Init)
    engineOut,     \* the latest processVariance call, <<>> before the first
    memo,          \* history: some earlier processVariance call, <<>> if none is kept
    emitted,       \* the latest engine result has been handed to the audit store
    auditStore,    \* the audit store: sequence of AuditRecords
    emitCall,      \* per emitter: the emit() call in flight, with the result it was handed
    emitDone,      \* history: number of emit() calls that have returned successfully
    snapshots,     \* SnapshotEngine.snapshots: per id <<>> or <<the stored Snapshot>>
    snapshotCall,  \* the latest call of the SnapshotEngine with what it returned, <<>> before the first
    toast,         \* workbench: per officer the toast of the latest handler
    tokens,        \* TokenManager: which tokens localStorage holds
    requests,      \* HttpClient: per caller the request() call in progress
    now            \* the clock read by new Date()

vars == <<suggestions, decisionLog, call, raced, costInputs, engineConfig,
          probe, engineOut, memo, emitted, auditStore, emitCall, emitDone,
          snapshots, snapshotCall, toast, tokens, requests, now>>

gateVars == <<suggestions, decisionLog, call, raced, costInputs>>

\* the snapshot engine, the workbench and the HTTP client
sideVars == <<snapshots, snapshotCall, toast, tokens, requests>>

-----------------------------------------------------------------------------
(* Bounds *)

Precision == 14
MaxSuggestions == 2
MaxStore == 2
MaxTime == 1
MaxInputs == 2

-----------------------------------------------------------------------------
(* Binary floating point *)

RECURSIVE Pow2(_)
Pow2(k) == IF k <= 0 THEN 1 ELSE 2 * Pow2(k - 1)

RECURSIVE BitLen(_)
BitLen(a) == IF a = 0 THEN 0 ELSE 1 + BitLen(a \div 2)

AbsInt(n) == IF n < 0 THEN 0 - n ELSE n

MinInt(a, b) == IF a <= b THEN a ELSE b

Zero == [m |-> 0, e |-> 0]

RECURSIVE Canon(_, _)
Canon(m, e) ==
    IF m = 0 THEN Zero
    ELSE IF m % 2 = 0 THEN Canon(m \div 2, e + 1)
    ELSE [m |-> m, e |-> e]

\* the natural number a * 2^e rounded to Precision bits, ties to even
RoundNat(a, e) ==
    LET k == BitLen(a) - Precision
    IN  IF k <= 0 THEN Canon(a, e)
        ELSE LET q == a \div Pow2(k)
                 r == a % Pow2(k)
                 h == Pow2(k - 1)
                 up == (r > h) \/ (r = h /\ q % 2 = 1)
             IN  Canon(IF up THEN q + 1 ELSE q, e + k)

FRound(n, e) ==
    LET x == RoundNat(AbsInt(n), e)
    IN  IF n < 0 THEN [m |-> 0 - x.m, e |-> x.e] ELSE x

\* x - y
FSub(x, y) ==
    LET e == MinInt(x.e, y.e)
    IN  FRound(x.m * Pow2(x.e - e) - y.m * Pow2(y.e - e), e)

\* x * y
FMul(x, y) == FRound(x.m * y.m, x.e + y.e)

\* -x
FNeg(x) == [m |-> 0 - x.m, e |-> x.e]

\* x + y
FAdd(a, b) == FSub(a, FNeg(b))

\* Math.abs(x)
FAbs(x) == [m |-> AbsInt(x.m), e |-> x.e]

FGe0(x) == x.m >= 0

\* x > y
FGt(x, y) ==
    LET e == MinInt(x.e, y.e)
    IN  x.m * Pow2(x.e - e) > y.m * Pow2(y.e - e)

RECURSIVE ShiftFor(_, _, _)
ShiftFor(n, d, s) ==
    IF n * Pow2(s) >= d * Pow2(Precision + 1) THEN s ELSE ShiftFor(n, d, s + 1)

\* the number nearest to n / d (n >= 0, d > 0): a decimal literal or a quotient
FromRatio(n, d) ==
    IF n = 0 THEN Zero
    ELSE LET s == ShiftFor(n, d, 0)
             q == (n * Pow2(s)) \div d
             sticky == IF (n * Pow2(s)) % d = 0 THEN 0 ELSE 1
         IN  RoundNat(2 * q + sticky, 0 - s - 1)

\* x >= y
FGe(x, y) == ~FGt(y, x)

-----------------------------------------------------------------------------
(* Variance & Sharing Engine *)

Share(u, c) == [utility_share |-> u, consumer_share |-> c]

\* the configuration of the 30.06.2025 Order (testConfig)
StandardConfig ==
    [controllable_gains |-> Share(FromRatio(2, 3), FromRatio(1, 3)),
     controllable_losses |-> Share(FromRatio(1, 1), Zero),
     uncontrollable_variances |-> Share(Zero, FromRatio(1, 1))]

\* another valid configuration: every pair sums to 1
AltConfig ==
    [controllable_gains |-> Share(FromRatio(1, 2), FromRatio(1, 2)),
     controllable_losses |-> Share(FromRatio(3, 4), FromRatio(1, 4)),
     uncontrollable_variances |-> Share(FromRatio(1, 4), FromRatio(3, 4))]

Configs == {StandardConfig, AltConfig}

Heads == {"O&M", "Power_Purchase"}

Categories == {"Controllable", "Uncontrollable"}

\* anomaly_score?: <<>> is undefined, <<x>> is the score x
AnomalyScores == {<<>>, <<FromRatio(8, 10)>>, <<FromRatio(85, 100)>>}

ApprovedAmounts == {FromRatio(100, 1), FromRatio(10055, 100)}

ActualAmounts == {FromRatio(70, 1), FromRatio(100, 1), FromRatio(130, 1), FromRatio(10056, 100)}

\* a CostInput as a caller hands it over; origin names the suggestion it was
\* converted from (0: handed to the engine directly)
CostInput(h, c, ap, ac, an, v, o) ==
    [head |-> h, category |-> c, approved |-> ap, actual |-> ac,
     anomaly_score |-> an, is_human_verified |-> v, origin |-> o]

EngineInputs ==
    {CostInput(h, c, ap, ac, an, v, 0) :
        h \in Heads, c \in Categories, ap \in ApprovedAmounts,
        ac \in ActualAmounts, an \in AnomalyScores, v \in BOOLEAN}

\* inputs handed to the engine without the gate, as runSimulation and
\* createSnapshot do: a plain CostInput, which has no verification mark
DirectInputs ==
    {CostInput("O&M", "Controllable", FromRatio(100, 1), FromRatio(70, 1), <<>>, FALSE, 0),
     CostInput("Power_Purchase", "Uncontrollable", FromRatio(100, 1), FromRatio(130, 1),
               <<FromRatio(85, 100)>>, FALSE, 0)}

Variance(input) == FSub(input.approved, input.actual)

\* mutant: a zero variance is a loss
IsGainStrict(variance) == FGt(variance, Zero)

IsGain(variance) == FGe0(variance)

\* the sharing pair selected by (category, isGain)
SelectedPair(config, input, isGain) ==
    IF input.category = "Controllable"
    THEN IF isGain THEN config.controllable_gains ELSE config.controllable_losses
    ELSE config.uncontrollable_variances

LogicStr(input, isGain) ==
    IF input.category = "Controllable"
    THEN IF isGain THEN "Controllable Gain (Savings) split 2/3 Utility, 1/3 Consumer."
         ELSE "Controllable Loss fully borne by Utility (Disallowed)."
    ELSE "Uncontrollable Variance fully passed through to Consumer."

UtilityImpact(variance, pair) == FMul(FAbs(variance), pair.utility_share)

\* mutant: the consumer side is given the utility's share
ConsumerImpactUtilityShare(variance, pair) == FMul(FAbs(variance), pair.utility_share)

ConsumerImpact(variance, pair) == FMul(FAbs(variance), pair.consumer_share)

\* mutant: every loss is disallowed, whatever the category
DisallowedAnyLoss(input, variance, isGain) ==
    IF ~isGain THEN FAbs(variance) ELSE Zero

\* mutant: the disallowance keeps the sign of the variance
DisallowedSigned(input, variance, isGain) ==
    IF input.category = "Controllable" /\ ~isGain THEN variance ELSE Zero

Disallowed(input, variance, isGain) ==
    IF input.category = "Controllable" /\ ~isGain THEN FAbs(variance) ELSE Zero

\* mutant: a controllable loss passes its consumer impact through
PassedThroughLossShared(input, variance, isGain, consumerImpact) ==
    IF input.category = "Uncontrollable" THEN variance ELSE consumerImpact

\* mutant: an uncontrollable variance is passed through as its consumer impact
PassedThroughShared(input, variance, isGain, consumerImpact) ==
    IF input.category = "Uncontrollable" THEN consumerImpact
    ELSE IF isGain THEN consumerImpact ELSE Zero

PassedThrough(input, variance, isGain, consumerImpact) ==
    IF input.category = "Uncontrollable" THEN variance
    ELSE IF isGain THEN consumerImpact ELSE Zero

RegRef(input) ==
    [clause |-> "Regulation 9.2 - Gain/Loss Sharing mechanism",
     description |-> IF input.category = "Controllable"
                     THEN "Sharing of controllable factors efficiency gains/losses"
                     ELSE "Pass-through of uncontrollable factors",
     order_date |-> "30.06.2025"]

AnomalyThreshold == FromRatio(8, 10)

\* mutant: a score of exactly 0.8 is flagged too
FlagsAtThreshold(input) ==
    IF input.anomaly_score # <<>> /\ input.anomaly_score[1] # Zero
       /\ FGe(input.anomaly_score[1], AnomalyThreshold)
    THEN <<"HIGH_ANOMALY_FLAG">> ELSE <<>>

Flags(input) ==
    IF input.anomaly_score # <<>> /\ input.anomaly_score[1] # Zero
       /\ FGt(input.anomaly_score[1], AnomalyThreshold)
    THEN <<"HIGH_ANOMALY_FLAG">> ELSE <<>>

Timestamp(clock) == clock

Scenario(input, isGain) ==
    <<input.head, IF isGain THEN "Gain Sharing" ELSE "Loss Disallowance">>

\* processVariance: the AuditObject returned for input under config at time clock
processVariance(config, input, clock) ==
    LET variance == Variance(input)
        isGain == IsGain(variance)
        pair == SelectedPair(config, input, isGain)
        consumerImpact == ConsumerImpact(variance, pair)
    IN  [timestamp |-> Timestamp(clock),
         scenario |-> Scenario(input, isGain),
         cost_head |-> input.head,
         variance_category |-> input.category,
         approved_amount |-> input.approved,
         actual_amount |-> input.actual,
         variance_amount |-> variance,
         disallowed_variance |-> Disallowed(input, variance, isGain),
         passed_through_variance |-> PassedThrough(input, variance, isGain, consumerImpact),
         logic_applied |-> LogicStr(input, isGain),
         regulatory_reference |-> RegRef(input),
         metadata |-> [engine_version |-> "Phase1-v1.0.0", flags |-> Flags(input)]]

-----------------------------------------------------------------------------
(* Verification gate: the mapping state machine behind POST /mapping/confirm *)

Clients == {"officer_a", "officer_b"}

\* comments as sequences of characters
Comments == {<<>>, <<"r">>}

OverrideHeads == {"Interest"}

OverrideCategories == {"Controllable"}

\* candidate values handed over by the extraction collaborator
RawFields ==
    {[source_field |-> "Employee Expense", suggested_head |-> "O&M",
      suggested_category |-> "Controllable", confidence |-> FromRatio(95, 100),
      approved |-> FromRatio(100, 1), actual |-> FromRatio(70, 1)],
     [source_field |-> "Legal fees", suggested_head |-> "Power_Purchase",
      suggested_category |-> "Uncontrollable", confidence |-> FromRatio(67, 100),
      approved |-> FromRatio(100, 1), actual |-> FromRatio(130, 1)]}

IdleCall == [state |-> "idle", req |-> <<>>, outcome |-> "none"]

\* MappingService.confirmMapping(request): the request is posted as given
ConfirmRequest(id, comment, officer) ==
    [mapping_id |-> id, decision |-> "Confirmed", override_head |-> "",
     override_category |-> "", comment |-> comment, officer_name |-> officer]

\* MappingService.overrideMapping(mappingId, newHead, newCategory, comment)
OverrideRequest(id, newHead, newCategory, comment) ==
    [mapping_id |-> id, decision |-> "Overridden", override_head |-> newHead,
     override_category |-> newCategory, comment |-> comment,
     officer_name |-> "Current User"]

\* MappingService.rejectMapping(mappingId, comment)
RejectRequest(id, comment) ==
    [mapping_id |-> id, decision |-> "Rejected", override_head |-> "",
     override_category |-> "", comment |-> comment, officer_name |-> "Current User"]

\* the requests client c can post for suggestion id
Requests(c, id) ==
    {ConfirmRequest(id, comment, c) : comment \in Comments}
    \cup {OverrideRequest(id, h, k, comment) :
            h \in OverrideHeads, k \in OverrideCategories, comment \in Comments}
    \cup {RejectRequest(id, comment) : comment \in Comments}

\* mutant: a suggestion of high confidence is promoted on arrival
InitialStatusAuto(raw) ==
    IF FGe(raw.confidence, FromRatio(85, 100)) THEN "Confirmed" ELSE "Pending"

\* the status a suggestion is created with
InitialStatus(raw) == "Pending"

\* submit(rawField): a new suggestion
NewSuggestion(id, raw) ==
    [mapping_id |-> id, source_field |-> raw.source_field,
     suggested_head |-> raw.suggested_head,
     suggested_category |-> raw.suggested_category,
     confidence |-> raw.confidence, approved |-> raw.approved,
     actual |-> raw.actual, status |-> InitialStatus(raw), decision |-> <<>>]

\* mutant: no check of the present status, the last decision wins
DecideOutcomeLastWins(s, req) ==
    IF req.decision \in {"Overridden", "Rejected"} /\ req.comment = <<>>
    THEN "MissingComment" ELSE "ok"

\* mutant: a Rejected suggestion may be decided again
DecideOutcomeReopen(s, req) ==
    IF s.status \in {"Confirmed", "Overridden"} THEN "InvalidTransition"
    ELSE IF req.decision \in {"Overridden", "Rejected"} /\ req.comment = <<>>
    THEN "MissingComment" ELSE "ok"

\* mutant: the comment is not looked at
DecideOutcomeAnyComment(s, req) ==
    IF s.status # "Pending" THEN "InvalidTransition" ELSE "ok"

\* decide(): the checks, in the order the gate makes them
DecideOutcome(s, req) ==
    IF s.status # "Pending" THEN "InvalidTransition"
    ELSE IF req.decision \in {"Overridden", "Rejected"} /\ req.comment = <<>>
    THEN "MissingComment" ELSE "ok"

\* the suggestion after a successful decision
Decided(s, req, clock) ==
    [s EXCEPT !.status = req.decision,
              !.decision = <<[officer |-> req.officer_name, comment |-> req.comment,
                              decided_at |-> clock]>>]

\* the decision log entry of a successful decision
LogEntry(s, req, clock) ==
    [mapping_id |-> s.mapping_id, who |-> req.officer_name, when |-> clock,
     from |-> s.status, to |-> req.decision, comment |-> req.comment]

\* mutant: a refused decision is logged too
LogAfterAlways(log, s, req, outcome, clock) == Append(log, LogEntry(s, req, clock))

\* the decision log after decide(): one more entry if the decision succeeded
LogAfter(log, s, req, outcome, clock) ==
    IF outcome = "ok" THEN Append(log, LogEntry(s, req, clock)) ELSE log

\* the CostInput a Confirmed or Overridden suggestion is converted into
ToCostInput(s, req) ==
    CostInput(IF req.decision = "Overridden" THEN req.override_head ELSE s.suggested_head,
              IF req.decision = "Overridden" THEN req.override_category
              ELSE s.suggested_category,
              s.approved, s.actual, <<>>, TRUE, s.mapping_id)

\* the callers of emit(): workers that run the engine and hand its result over
Emitters == {"worker_1", "worker_2"}

IdleEmit == [state |-> "idle", call |-> <<>>, seen |-> 0, supersedes |-> 0]

engineVars == <<engineConfig, probe, engineOut, memo, emitted, auditStore,
                emitCall, emitDone>>

\* the extraction collaborator submits a raw field
Submit(raw) ==
    /\ Len(suggestions) < MaxSuggestions
    /\ suggestions' = Append(suggestions, NewSuggestion(Len(suggestions) + 1, raw))
    /\ UNCHANGED <<sideVars, decisionLog, call, raced, costInputs, engineVars, now>>

\* client c posts its decision; the call is in flight until the gate answers
CallDecide(c, req) ==
    /\ call[c].state = "idle"
    /\ call' = [call EXCEPT ![c] = [state |-> "inflight", req |-> <<req>>,
                                    outcome |-> "none"]]
    /\ raced' = /\ suggestions[req.mapping_id].status = "Pending"
                /\ \E d \in Clients \ {c} :
                      /\ call[d].state = "inflight"
                      /\ call[d].req[1].mapping_id = req.mapping_id
    /\ UNCHANGED <<sideVars, suggestions, decisionLog, costInputs, engineVars, now>>

\* the gate answers the call of client c: one atomic check-then-set
Decide(c) ==
    /\ call[c].state = "inflight"
    /\ LET req == call[c].req[1]
           s == suggestions[req.mapping_id]
           outcome == DecideOutcome(s, req)
       IN  /\ call' = [call EXCEPT ![c] = [state |-> "done", req |-> <<req>>,
                                           outcome |-> outcome]]
           /\ IF outcome = "ok"
              THEN /\ suggestions' = [suggestions EXCEPT
                                        ![req.mapping_id] = Decided(s, req, now)]
                   /\ costInputs' = IF req.decision \in {"Confirmed", "Overridden"}
                                    THEN Append(costInputs, ToCostInput(s, req))
                                    ELSE costInputs
              ELSE UNCHANGED <<suggestions, costInputs>>
           /\ decisionLog' = LogAfter(decisionLog, s, req, outcome, now)
    /\ UNCHANGED <<sideVars, raced, engineVars, now>>

-----------------------------------------------------------------------------
(* Engine calls *)

\* mutant: the engine answers from the previous call when the head is the same
EngineCallCached(input) ==
    [input |-> input, config |-> engineConfig, outcome |-> "ok",
     result |-> IF engineOut # <<>> /\ engineOut[1].input.head = input.head
                THEN engineOut[1].result
                ELSE processVariance(engineConfig, input, now)]

\* one call of processVariance as the history keeps it: processVariance has no
\* throw statement and returns its AuditObject for every CostInput
EngineCall(input) ==
    [input |-> input, config |-> engineConfig, outcome |-> "ok",
     result |-> processVariance(engineConfig, input, now)]

\* mutant: the call normalises the loss pair of the config it holds
ConfigAfterCallNormalised(config, input) ==
    [config EXCEPT !.controllable_losses = Share(FromRatio(1, 1), Zero)]

\* this.config after a call of processVariance: the method only reads it
ConfigAfterCall(config, input) == config

\* engine.processVariance(input) on the engine alone
Invoke(input) ==
    /\ engineOut' = <<EngineCall(input)>>
    /\ memo' \in {memo, <<EngineCall(input)>>}
    /\ engineConfig' = ConfigAfterCall(engineConfig, input)
    /\ UNCHANGED <<sideVars, gateVars, probe, emitted, auditStore, emitCall, emitDone, now>>

\* new GainLossSharingEngine(config)
Construct(config) ==
    /\ config # engineConfig
    /\ engineConfig' = config
    /\ UNCHANGED <<sideVars, gateVars, probe, engineOut, memo, emitted, auditStore, emitCall, emitDone,
                   now>>

\* time passes
Tick ==
    /\ now < MaxTime
    /\ now' = now + 1
    /\ UNCHANGED <<sideVars, gateVars, engineConfig, probe, engineOut, memo, emitted, auditStore,
                   emitCall, emitDone>>

\* snapshot ids, in the order of their use in the demo
SnapshotIds == {"base_case", "aggressive"}

\* the callers of HttpClient.request
Callers == {"page_1", "page_2"}

IdleRequest ==
    [pc |-> "idle", isRetry |-> FALSE, response |-> <<>>, outcome |-> "none",
     status |-> <<>>, fetches |-> 0, refreshes |-> 0]

\* snapshot engine, workbench and HTTP client before their first use
SideIdle ==
    /\ snapshots = [id \in SnapshotIds |-> <<>>]
    /\ snapshotCall = <<>>
    /\ toast = [c \in Clients |-> "none"]
    /\ tokens = [access |-> TRUE, refresh |-> TRUE]
    /\ requests = [r \in Callers |-> IdleRequest]

InitEngine ==
    /\ suggestions = <<>>
    /\ decisionLog = <<>>
    /\ call = [c \in Clients |-> IdleCall]
    /\ raced = FALSE
    /\ costInputs = <<>>
    /\ engineConfig \in Configs
    /\ probe \in EngineInputs
    /\ engineOut = <<>>
    /\ memo = <<>>
    /\ emitted = FALSE
    /\ auditStore = <<>>
    /\ emitCall = [e \in Emitters |-> IdleEmit]
    /\ emitDone = 0
    /\ SideIdle
    /\ now = 0

InvokeProbe == Invoke(probe)

InvokeOther == \E input \in DirectInputs : Invoke(input)

Rebuild == \E config \in Configs : Construct(config)

NextEngine == InvokeProbe \/ InvokeOther \/ Rebuild \/ Tick

SpecEngine == InitEngine /\ [][NextEngine]_vars

-----------------------------------------------------------------------------
(* The whole pipeline: gate, engine, audit emitter *)

\* the words of the closed vocabularies, in the order of their codes
Vocabulary ==
    <<"O&M", "Power_Purchase", "Interest", "Depreciation", "Return_on_Equity", "Other",
      "Controllable", "Uncontrollable">>

Code(str) == CHOOSE i \in 1..Len(Vocabulary) : Vocabulary[i] = str

\* canonical serialization of a result and the CostInput it was computed from
Serialize(result, input) ==
    <<result.timestamp, Code(result.cost_head), Code(result.variance_category),
      result.approved_amount.m, result.approved_amount.e,
      result.actual_amount.m, result.actual_amount.e,
      result.variance_amount.m, result.variance_amount.e,
      result.disallowed_variance.m, result.disallowed_variance.e,
      result.passed_through_variance.m, result.passed_through_variance.e,
      Len(result.metadata.flags),
      Code(input.head), Code(input.category),
      input.approved.m, input.approved.e, input.actual.m, input.actual.e,
      Len(input.anomaly_score),
      IF input.anomaly_score = <<>> THEN 0 ELSE input.anomaly_score[1].m,
      IF input.anomaly_score = <<>> THEN 0 ELSE input.anomaly_score[1].e,
      IF input.is_human_verified THEN 1 ELSE 0, input.origin>>

\* the hash of a serialization: a polynomial rolling hash stands for the digest
RECURSIVE Hash(_)
Hash(seq) ==
    IF seq = <<>> THEN 7
    ELSE (31 * Hash(SubSeq(seq, 1, Len(seq) - 1)) + (seq[Len(seq)] % 65521)) % 65521

\* the checksum emit() leaves out the input snapshot
EmitChecksumResultOnly(c) ==
    Hash(SubSeq(Serialize(c.result, c.input), 1, 14))

\* the checksum emit() stores: over the result and the input snapshot
EmitChecksum(c) == Hash(Serialize(c.result, c.input))

\* emit(result): the record appended to the audit store
AuditRecord(id, c) ==
    [id |-> id, result |-> c.result, input_snapshot |-> c.input,
     config_version |-> c.config, checksum |-> EmitChecksum(c), supersedes |-> 0]

\* the caller hands the engine an input; each result is emitted before the next call
InvokeStep(input) ==
    /\ engineOut = <<>> \/ emitted
    /\ engineOut' = <<EngineCall(input)>>
    /\ emitted' = FALSE
    /\ UNCHANGED <<sideVars, suggestions, decisionLog, call, raced, engineConfig, probe,
                   memo, auditStore, emitCall, emitDone, now>>

\* the engine computes the next CostInput that came through the gate
InvokeFromGate ==
    /\ costInputs # <<>>
    /\ InvokeStep(Head(costInputs))
    /\ costInputs' = Tail(costInputs)

\* a caller hands a CostInput to the engine directly
InvokeDirect(input) ==
    /\ InvokeStep(input)
    /\ UNCHANGED costInputs

\* the audit emitter appends the record of the latest engine result
Emit ==
    /\ engineOut # <<>>
    /\ ~emitted
    /\ engineOut[1].outcome = "ok"
    /\ Len(auditStore) < MaxStore
    /\ auditStore' = Append(auditStore, AuditRecord(Len(auditStore) + 1, engineOut[1]))
    /\ emitted' = TRUE
    /\ UNCHANGED <<sideVars, gateVars, engineConfig, probe, engineOut, memo, emitCall, emitDone, now>>

Init ==
    /\ suggestions = <<>>
    /\ decisionLog = <<>>
    /\ call = [c \in Clients |-> IdleCall]
    /\ raced = FALSE
    /\ costInputs = <<>>
    /\ engineConfig = StandardConfig
    /\ probe = CostInput("O&M", "Controllable", FromRatio(100, 1), FromRatio(70, 1),
                         <<>>, FALSE, 0)
    /\ engineOut = <<>>
    /\ memo = <<>>
    /\ emitted = FALSE
    /\ auditStore = <<>>
    /\ emitCall = [e \in Emitters |-> IdleEmit]
    /\ emitDone = 0
    /\ SideIdle
    /\ now = 0

SubmitAny == \E raw \in RawFields : Submit(raw)

CallDecideAny ==
    \E c \in Clients : \E id \in 1..Len(suggestions) :
        \E req \in Requests(c, id) : CallDecide(c, req)

DecideAny == \E c \in Clients : Decide(c)

\* the direct call of the run: the input under study, as runSimulation hands it over
InvokeDirectProbe == InvokeDirect(probe)

Next ==
    \/ SubmitAny
    \/ CallDecideAny
    \/ DecideAny
    \/ InvokeFromGate
    \/ InvokeDirectProbe
    \/ Emit
    \/ Tick

Spec == Init /\ [][Next]_vars

\* the gate alone
NextGate == SubmitAny \/ CallDecideAny \/ DecideAny \/ Tick

SpecGate == Init /\ [][NextGate]_vars

-----------------------------------------------------------------------------
(* The audit store under concurrent emitters *)

\* the record of an emit() call: a correction names the record it supersedes
RecordOf(id, ec) ==
    [AuditRecord(id, ec.call[1]) EXCEPT !.supersedes = ec.supersedes]

\* a correction rewrites the record it supersedes
StoreAfterEmitInPlace(store, ec) ==
    IF ec.supersedes # 0
    THEN [store EXCEPT ![ec.supersedes] = RecordOf(ec.supersedes, ec)]
    ELSE Append(store, RecordOf(Len(store) + 1, ec))

\* the id is taken from the store length read when the call began
StoreAfterEmitStale(store, ec) ==
    IF ec.seen + 1 <= Len(store)
    THEN [store EXCEPT ![ec.seen + 1] = RecordOf(ec.seen + 1, ec)]
    ELSE Append(store, RecordOf(ec.seen + 1, ec))

\* the store after the append of emit(): the id is assigned with the append
StoreAfterEmit(store, ec) == Append(store, RecordOf(Len(store) + 1, ec))

\* the snapshot of a record is the caller's CostInput object itself
ReadSnapshotShared(rec) == probe

\* the input snapshot of a record: the copy made by emit()
ReadSnapshot(rec) == rec.input_snapshot

\* a worker runs the engine on input and calls emit() with the result;
\* sup # 0 makes the record a correction of record sup
BeginEmit(e, input, sup) ==
    /\ emitCall[e].state # "inflight"
    /\ Len(auditStore) + Cardinality({d \in Emitters : emitCall[d].state = "inflight"})
           < MaxStore
    /\ emitCall' = [emitCall EXCEPT ![e] =
                       [state |-> "inflight", call |-> <<EngineCall(input)>>,
                        seen |-> Len(auditStore), supersedes |-> sup]]
    /\ UNCHANGED <<sideVars, gateVars, engineConfig, probe, engineOut, memo, emitted, auditStore,
                   emitDone, now>>

\* emit() appends the record and returns
FinishEmit(e) ==
    /\ emitCall[e].state = "inflight"
    /\ auditStore' = StoreAfterEmit(auditStore, emitCall[e])
    /\ emitCall' = [emitCall EXCEPT ![e] = [IdleEmit EXCEPT !.state = "done",
                                                          !.seen = emitCall[e].seen]]
    /\ emitDone' = emitDone + 1
    /\ UNCHANGED <<sideVars, gateVars, engineConfig, probe, engineOut, memo, emitted, now>>

\* the amounts a caller revises the actual of its CostInput to
RevisedAmounts == {FromRatio(70, 1), FromRatio(130, 1)}

\* the caller changes its CostInput object after handing it over
MutateProbe ==
    /\ \E a \in RevisedAmounts :
          /\ a # probe.actual
          /\ probe' = [probe EXCEPT !.actual = a]
    /\ UNCHANGED <<sideVars, gateVars, engineConfig, engineOut, memo, emitted, auditStore,
                   emitCall, emitDone, now>>

BeginEmitAny ==
    \E e \in Emitters : \E sup \in 0..Len(auditStore) : BeginEmit(e, probe, sup)

FinishEmitAny == \E e \in Emitters : FinishEmit(e)

NextAudit == BeginEmitAny \/ FinishEmitAny \/ MutateProbe \/ Tick

SpecAudit == Init /\ [][NextAudit]_vars

-----------------------------------------------------------------------------
(* The engine on configurations and inputs as they are loaded *)

\* a configuration file whose controllable_gains pair sums to 4/3
BadSumConfig ==
    [controllable_gains |-> Share(FromRatio(2, 3), FromRatio(2, 3)),
     controllable_losses |-> Share(FromRatio(1, 1), Zero),
     uncontrollable_variances |-> Share(Zero, FromRatio(1, 1))]

\* what yaml.parse can hand to the constructor
LoadedConfigs == Configs \cup {BadSumConfig}

\* the closed enumeration of CostInput.head
CostHeads == {"O&M", "Power_Purchase", "Interest", "Other"}

\* inputs as they arrive at run time, where the declared types are not
\* enforced: head and category are whatever strings the data carries
WireInputs ==
    {CostInput(h, c, FromRatio(100, 1), ac, <<>>, TRUE, 0) :
        h \in Heads \cup {"Wheeling"}, c \in Categories \cup {"Semi_Controllable"},
        ac \in {FromRatio(70, 1), FromRatio(93, 1), FromRatio(130, 1)}}

\* loadConfig followed by new GainLossSharingEngine(config)
Load == \E config \in LoadedConfigs : Construct(config)

InitLoad ==
    /\ suggestions = <<>>
    /\ decisionLog = <<>>
    /\ call = [c \in Clients |-> IdleCall]
    /\ raced = FALSE
    /\ costInputs = <<>>
    /\ engineConfig = StandardConfig
    /\ probe \in WireInputs
    /\ engineOut = <<>>
    /\ memo = <<>>
    /\ emitted = FALSE
    /\ auditStore = <<>>
    /\ emitCall = [e \in Emitters |-> IdleEmit]
    /\ emitDone = 0
    /\ SideIdle
    /\ now = 0

NextLoad == InvokeProbe \/ Load \/ Tick

SpecLoad == InitLoad /\ [][NextLoad]_vars

-----------------------------------------------------------------------------
(* SnapshotEngine: named snapshots of a batch of inputs and their comparison *)

\* the CostInputs a scenario is built from
SnapshotInputs ==
    {CostInput("O&M", "Controllable", FromRatio(100, 1), FromRatio(70, 1), <<>>, FALSE, 0),
     CostInput("Interest", "Uncontrollable", FromRatio(1, 10), FromRatio(3, 10),
               <<>>, FALSE, 0)}

\* inputs: CostInput[] of up to MaxInputs elements
InputLists ==
    UNION {[1..n -> SnapshotInputs] : n \in 0..MaxInputs}

\* inputs.map(input => this.engine.processVariance(input))
MapProcessVariance(config, inputs, clock) ==
    [i \in 1..Len(inputs) |-> processVariance(config, inputs[i], clock)]

\* mutant: the gap adds up the sizes of the variances
RECURSIVE TotalGapAbs(_)
TotalGapAbs(results) ==
    IF results = <<>> THEN Zero
    ELSE FAdd(TotalGapAbs(SubSeq(results, 1, Len(results) - 1)),
              FAbs(results[Len(results)].variance_amount))

\* results.reduce((sum, r) => sum + r.variance_amount, 0)
RECURSIVE TotalGap(_)
TotalGap(results) ==
    IF results = <<>> THEN Zero
    ELSE FAdd(TotalGap(SubSeq(results, 1, Len(results) - 1)),
              results[Len(results)].variance_amount)

\* the Snapshot object createSnapshot builds
NewSnapshot(id, label, createdBy, inputs, config, clock) ==
    LET results == MapProcessVariance(config, inputs, clock)
    IN  [id |-> id, label |-> label, created_at |-> Timestamp(clock),
         created_by |-> createdBy, inputs |-> inputs, results |-> results,
         total_revenue_gap |-> TotalGap(results)]

\* mutant: an id that is taken keeps its snapshot
StoreSnapshotKeepFirst(store, id, snapshot) ==
    IF store[id] # <<>> THEN store ELSE [store EXCEPT ![id] = <<snapshot>>]

\* this.snapshots.set(id, snapshot)
StoreSnapshot(store, id, snapshot) == [store EXCEPT ![id] = <<snapshot>>]

\* createSnapshot(id, label, createdBy, inputs)
CreateSnapshot(id, label, createdBy, inputs) ==
    LET snapshot == NewSnapshot(id, label, createdBy, inputs, engineConfig, now)
    IN  /\ snapshots' = StoreSnapshot(snapshots, id, snapshot)
        /\ snapshotCall' = <<[op |-> "createSnapshot", id |-> id, outcome |-> "ok",
                              returned |-> snapshot]>>
        /\ UNCHANGED <<gateVars, engineVars, toast, tokens, requests, now>>


MaxInt(x, y) == IF x >= y THEN x ELSE y

\* aResult?.variance_amount ?? 0
VarianceAt(results, i) ==
    IF i <= Len(results) THEN results[i].variance_amount ELSE Zero

\* aResult?.cost_head || bResult?.cost_head || 'Unknown'
HeadAt(aResults, bResults, i) ==
    IF i <= Len(aResults) THEN aResults[i].cost_head
    ELSE IF i <= Len(bResults) THEN bResults[i].cost_head ELSE "Unknown"

\* the line items pushed by the loop of compare
LineItems(a, b) ==
    [i \in 1..MaxInt(Len(a.results), Len(b.results)) |->
        [cost_head |-> HeadAt(a.results, b.results, i),
         scenario_a_variance |-> VarianceAt(a.results, i),
         scenario_b_variance |-> VarianceAt(b.results, i),
         delta |-> FSub(VarianceAt(b.results, i), VarianceAt(a.results, i))]]

ImpactDirection(delta) ==
    IF FGt(delta, Zero) THEN "FAVORABLE"
    ELSE IF FGt(Zero, delta) THEN "ADVERSE" ELSE "NEUTRAL"

\* the DeltaReport compare returns for snapshots a and b
DeltaReport(a, b, clock) ==
    LET delta == FSub(b.total_revenue_gap, a.total_revenue_gap)
    IN  [timestamp |-> Timestamp(clock),
         scenario_a |-> [id |-> a.id, label |-> a.label, revenue_gap |-> a.total_revenue_gap],
         scenario_b |-> [id |-> b.id, label |-> b.label, revenue_gap |-> b.total_revenue_gap],
         delta |-> delta,
         impact_direction |-> ImpactDirection(delta),
         line_items |-> LineItems(a, b)]

\* compare(scenarioAId, scenarioBId)
Compare(aId, bId) ==
    /\ snapshotCall' =
          <<[op |-> "compare", a |-> aId, b |-> bId,
             outcome |-> IF snapshots[aId] = <<>> \/ snapshots[bId] = <<>>
                         THEN "Error" ELSE "ok",
             returned |-> IF snapshots[aId] = <<>> \/ snapshots[bId] = <<>>
                          THEN <<>>
                          ELSE <<DeltaReport(snapshots[aId][1], snapshots[bId][1], now)>>]>>
    /\ UNCHANGED <<gateVars, engineVars, snapshots, toast, tokens, requests, now>>

\* the label the demo gives each scenario
LabelOf(id) ==
    IF id = "base_case" THEN "Base Case (Conservative)" ELSE "Aggressive Disallowance"

CreateSnapshotAny ==
    \E id \in SnapshotIds : \E inputs \in InputLists :
        CreateSnapshot(id, LabelOf(id), "Officer_A", inputs)

CompareAny == \E aId \in SnapshotIds : \E bId \in SnapshotIds : Compare(aId, bId)

NextSnapshot == CreateSnapshotAny \/ CompareAny

SpecSnapshot == Init /\ [][NextSnapshot]_vars

-----------------------------------------------------------------------------
(* Mapping Workbench: the handlers that post an officer's decision *)

\* what an officer can have typed into the comment box: sequences of characters
DraftComments == {<<>>, <<" ">>, <<" ", "r", " ">>}

\* what an officer can have typed into the override head box: a run of
\* characters is one element
DraftHeads == {<<>>, <<" ">>, <<"Interest">>}

RECURSIVE TrimStart(_)
TrimStart(text) ==
    IF text # <<>> /\ Head(text) = " " THEN TrimStart(Tail(text)) ELSE text

RECURSIVE TrimEnd(_)
TrimEnd(text) ==
    IF text # <<>> /\ text[Len(text)] = " "
    THEN TrimEnd(SubSeq(text, 1, Len(text) - 1)) ELSE text

\* String.prototype.trim
Trim(text) == TrimEnd(TrimStart(text))

\* mutant: only the empty text counts as blank
BlankEmptyOnly(text) == text = <<>>

\* !text.trim()
Blank(text) == Trim(text) = <<>>

\* the string a text box of one run holds
StringOf(text) == IF text = <<>> THEN "" ELSE text[1]

\* the handler returns after toast.error(message): nothing is posted
Refuse(c, message) ==
    /\ toast' = [toast EXCEPT ![c] = message]
    /\ UNCHANGED <<gateVars, engineVars, snapshots, snapshotCall, tokens, requests, now>>

\* handleConfirm(mapping) with the comment box holding comment
HandleConfirm(c, id, comment) ==
    IF Blank(comment) THEN Refuse(c, "Please provide a comment")
    ELSE CallDecide(c, ConfirmRequest(id, comment, c))

\* handleOverride(mapping) with the boxes holding comment and overrideHead
HandleOverride(c, id, comment, overrideHead, overrideCategory) ==
    IF Blank(comment) \/ Blank(overrideHead)
    THEN Refuse(c, "Please provide a comment and override category")
    ELSE CallDecide(c, OverrideRequest(id, StringOf(overrideHead), overrideCategory,
                                       comment))

\* handleReject(mapping) with the comment box holding comment
HandleReject(c, id, comment) ==
    IF Blank(comment) THEN Refuse(c, "Please provide a reason for rejection")
    ELSE CallDecide(c, RejectRequest(id, comment))

\* the handler resumes after the await: the toast of the outcome
Resume(c) ==
    /\ call[c].state = "done"
    /\ LET done == IF call[c].outcome = "ok" THEN "success" ELSE "failed"
       IN  /\ toast[c] # done
           /\ toast' = [toast EXCEPT ![c] = done]
    /\ UNCHANGED <<gateVars, engineVars, snapshots, snapshotCall, tokens, requests, now>>

HandleConfirmAny ==
    \E c \in Clients : \E id \in 1..Len(suggestions) : \E comment \in DraftComments :
        HandleConfirm(c, id, comment)

HandleOverrideAny ==
    \E c \in Clients : \E id \in 1..Len(suggestions) : \E comment \in DraftComments :
        \E overrideHead \in DraftHeads : \E overrideCategory \in OverrideCategories :
            HandleOverride(c, id, comment, overrideHead, overrideCategory)

HandleRejectAny ==
    \E c \in Clients : \E id \in 1..Len(suggestions) : \E comment \in DraftComments :
        HandleReject(c, id, comment)

ResumeAny == \E c \in Clients : Resume(c)

\* the pending lists the page can have loaded: one or two submitted fields
PendingLists ==
    {<<NewSuggestion(1, raw)>> : raw \in RawFields}
        \cup {<<NewSuggestion(1, first), NewSuggestion(2, second)>> :
                 first \in RawFields, second \in RawFields}

\* the page after loadPendingMappings()
InitWorkbench ==
    /\ suggestions \in PendingLists
    /\ decisionLog = <<>>
    /\ call = [c \in Clients |-> IdleCall]
    /\ raced = FALSE
    /\ costInputs = <<>>
    /\ engineConfig = StandardConfig
    /\ probe = CostInput("O&M", "Controllable", FromRatio(100, 1), FromRatio(70, 1),
                         <<>>, FALSE, 0)
    /\ engineOut = <<>>
    /\ memo = <<>>
    /\ emitted = FALSE
    /\ auditStore = <<>>
    /\ emitCall = [e \in Emitters |-> IdleEmit]
    /\ emitDone = 0
    /\ SideIdle
    /\ now = 0

NextWorkbench ==
    \/ HandleConfirmAny
    \/ HandleOverrideAny
    \/ HandleRejectAny
    \/ DecideAny
    \/ ResumeAny

SpecWorkbench == InitWorkbench /\ [][NextWorkbench]_vars

-----------------------------------------------------------------------------
(* HttpClient.request: one token refresh and one retry on a 401 *)

\* the fetches one call may make before the model stops following it
MaxFetches == 3

\* the status ApiError carries when fetch itself rejects
NetworkError == 0

\* what a fetch can come back with: a status of the server, or a rejection
Responses == {200, 204, 401, 429, 500, NetworkError}

LoggedIn == [access |-> TRUE, refresh |-> TRUE]

\* TokenManager.clearTokens()
ClearTokens == [access |-> FALSE, refresh |-> FALSE]

\* TokenManager.setTokens(data.access_token, data.refresh_token)
SetTokens == [access |-> TRUE, refresh |-> TRUE]

\* mutant: a 401 is answered with a refresh on the retry too
MayRefreshAlways(isRetry) == TRUE

\* response.status === 401 && !_isRetry, given the 401
MayRefresh(isRetry) == ~isRetry

\* the call settles: it returns a body or throws ApiError(status)
Settled(req, response, outcome, status) ==
    [req EXCEPT !.pc = "done", !.response = <<response>>, !.outcome = outcome,
                !.status = status, !.fetches = @ + 1]

\* request(endpoint, options): up to the first await fetch
Request(r) ==
    /\ requests[r].pc = "idle"
    /\ requests' = [requests EXCEPT ![r].pc = "fetching"]
    /\ UNCHANGED <<gateVars, engineVars, snapshots, snapshotCall, toast, tokens, now>>

\* the fetch of call r settles with response: the code up to the next await
Respond(r, response) ==
    /\ requests[r].pc = "fetching"
    /\ requests[r].fetches < MaxFetches
    /\ LET req == requests[r]
       IN  IF response = NetworkError
           THEN /\ requests' = [requests EXCEPT
                                  ![r] = Settled(req, response, "ApiError", <<NetworkError>>)]
                /\ UNCHANGED tokens
           ELSE IF response = 429
           THEN /\ requests' = [requests EXCEPT
                                  ![r] = Settled(req, response, "ApiError", <<429>>)]
                /\ UNCHANGED tokens
           ELSE IF response = 401 /\ MayRefresh(req.isRetry)
           THEN IF tokens.refresh
                THEN /\ requests' = [requests EXCEPT
                                       ![r] = [req EXCEPT !.pc = "refreshing",
                                                          !.response = <<response>>,
                                                          !.fetches = @ + 1,
                                                          !.refreshes = @ + 1]]
                     /\ UNCHANGED tokens
                ELSE /\ requests' = [requests EXCEPT
                                       ![r] = [Settled(req, response, "ApiError", <<401>>)
                                                 EXCEPT !.refreshes = @ + 1]]
                     /\ tokens' = ClearTokens
           ELSE IF response \notin 200..299
           THEN /\ requests' = [requests EXCEPT
                                  ![r] = Settled(req, response, "ApiError", <<response>>)]
                /\ UNCHANGED tokens
           ELSE /\ requests' = [requests EXCEPT
                                  ![r] = Settled(req, response, "returned", <<>>)]
                /\ UNCHANGED tokens
    /\ UNCHANGED <<gateVars, engineVars, snapshots, snapshotCall, toast, now>>

\* the POST of refreshAccessToken settles: refreshed or not
FinishRefresh(r, refreshed) ==
    /\ requests[r].pc = "refreshing"
    /\ IF refreshed
       THEN /\ tokens' = SetTokens
            /\ requests' = [requests EXCEPT ![r].pc = "fetching", ![r].isRetry = TRUE]
       ELSE /\ tokens' = ClearTokens
            /\ requests' = [requests EXCEPT ![r].pc = "done", ![r].outcome = "ApiError",
                                            ![r].status = <<401>>]
    /\ UNCHANGED <<gateVars, engineVars, snapshots, snapshotCall, toast, now>>

RequestAny == \E r \in Callers : Request(r)

RespondAny == \E r \in Callers : \E response \in Responses : Respond(r, response)

FinishRefreshAny == \E r \in Callers : \E refreshed \in BOOLEAN : FinishRefresh(r, refreshed)

\* the pages start logged in or logged out
InitHttp ==
    /\ suggestions = <<>>
    /\ decisionLog = <<>>
    /\ call = [c \in Clients |-> IdleCall]
    /\ raced = FALSE
    /\ costInputs = <<>>
    /\ engineConfig = StandardConfig
    /\ probe = CostInput("O&M", "Controllable", FromRatio(100, 1), FromRatio(70, 1),
                         <<>>, FALSE, 0)
    /\ engineOut = <<>>
    /\ memo = <<>>
    /\ emitted = FALSE
    /\ auditStore = <<>>
    /\ emitCall = [e \in Emitters |-> IdleEmit]
    /\ emitDone = 0
    /\ snapshots = [id \in SnapshotIds |-> <<>>]
    /\ snapshotCall = <<>>
    /\ toast = [c \in Clients |-> "none"]
    /\ tokens \in {LoggedIn, ClearTokens}
    /\ requests = [r \in Callers |-> IdleRequest]
    /\ now = 0

NextHttp == RequestAny \/ RespondAny \/ FinishRefreshAny

SpecHttp == InitHttp /\ [][NextHttp]_vars

\* every fetch the browser starts settles: it resolves or it rejects
Settles(r) ==
    \/ \E response \in Responses : Respond(r, response)
    \/ \E refreshed \in BOOLEAN : FinishRefresh(r, refreshed)

SpecHttpFair == SpecHttp /\ \A r \in Callers : WF_vars(Settles(r))

-----------------------------------------------------------------------------
(* Properties of the pipeline, checked under Spec *)

FromVerifiedSuggestion(input) ==
    /\ input.origin \in 1..Len(suggestions)
    /\ suggestions[input.origin].status \in {"Confirmed", "Overridden"}
    /\ input.is_human_verified

\* C1: every CostInput that reaches the engine, and every AuditRecord of the
\* store, comes from a suggestion that is Confirmed or Overridden and carries
\* is_human_verified = TRUE; a Pending or Rejected suggestion yields none.
C1_OnlyVerifiedReachEngine ==
    /\ \A i \in 1..Len(costInputs) : FromVerifiedSuggestion(costInputs[i])
    /\ engineOut # <<>> => FromVerifiedSuggestion(engineOut[1].input)
    /\ \A i \in 1..Len(auditStore) : FromVerifiedSuggestion(auditStore[i].input_snapshot)

\* C2: an engine call on an input that is not human-verified fails with
\* NotVerified, and no AuditRecord of such an input is in the store.
C2_UnverifiedRejected ==
    /\ (engineOut # <<>> /\ ~engineOut[1].input.is_human_verified)
            => engineOut[1].outcome = "NotVerified"
    /\ \A i \in 1..Len(auditStore) : auditStore[i].input_snapshot.is_human_verified

-----------------------------------------------------------------------------
(* Properties of the gate, checked under SpecGate *)

Terminal == {"Confirmed", "Overridden", "Rejected"}

\* the request carries the comment its decision needs
ValidReq(req) == ~(req.decision \in {"Overridden", "Rejected"} /\ req.comment = <<>>)

\* the gate answers the call of client c in this step
Answers(c) == call[c].state = "inflight" /\ call'[c].state = "done"

C4_NonPendingRefused ==
    [][\A c \in Clients :
          (Answers(c) /\ suggestions[call[c].req[1].mapping_id].status # "Pending")
          => /\ call'[c].outcome = "InvalidTransition"
             /\ suggestions' = suggestions
             /\ decisionLog' = decisionLog]_vars

C4_Witness ==
    \E c \in Clients :
        /\ call[c].state = "done"
        /\ call[c].outcome = "InvalidTransition"
        /\ call[c].req[1].decision = "Confirmed"
        /\ suggestions[call[c].req[1].mapping_id].status = "Rejected"
        /\ Len(decisionLog) = 1

\* C5: decide() on a Pending suggestion with decision Overridden or Rejected
\* and an empty comment fails with MissingComment; the suggestion stays
\* Pending and no CostInput is produced.
C5_EmptyCommentRefused ==
    [][\A c \in Clients :
          (/\ Answers(c)
           /\ suggestions[call[c].req[1].mapping_id].status = "Pending"
           /\ call[c].req[1].decision \in {"Overridden", "Rejected"}
           /\ call[c].req[1].comment = <<>>)
          => /\ call'[c].outcome = "MissingComment"
             /\ suggestions'[call[c].req[1].mapping_id].status = "Pending"
             /\ costInputs' = costInputs]_vars

C5_Witness ==
    \E c \in Clients :
        /\ call[c].state = "done"
        /\ call[c].outcome = "MissingComment"
        /\ call[c].req[1].decision = "Overridden"
        /\ suggestions[call[c].req[1].mapping_id].status = "Pending"
        /\ costInputs = <<>>

\* C6: a suggestion is created Pending whatever its confidence; its status
\* changes only in a step in which the gate answers a decide() call with
\* success, from Pending to the decision asked for; so it changes at most
\* once and a terminal status never changes.
C6_Lifecycle ==
    [][/\ Len(suggestions') >= Len(suggestions)
       /\ \A id \in 1..Len(suggestions') :
             IF id > Len(suggestions)
             THEN suggestions'[id].status = "Pending"
             ELSE suggestions'[id].status # suggestions[id].status
                  => /\ suggestions[id].status = "Pending"
                     /\ suggestions'[id].status \in Terminal
                     /\ \E c \in Clients :
                           /\ Answers(c)
                           /\ call'[c].outcome = "ok"
                           /\ call[c].req[1].mapping_id = id
                           /\ call[c].req[1].decision = suggestions'[id].status]_vars

C6_Witness ==
    /\ now > 0
    /\ \E i \in 1..Len(suggestions) :
          /\ suggestions[i].confidence = FromRatio(95, 100)
          /\ suggestions[i].status = "Pending"
    /\ \E j \in 1..Len(suggestions) :
          /\ suggestions[j].status \in Terminal
          /\ \E c \in Clients :
                /\ call[c].state = "done"
                /\ call[c].outcome = "InvalidTransition"
                /\ call[c].req[1].mapping_id = j

-----------------------------------------------------------------------------
(* Properties of the engine, checked under SpecEngine *)

LastInput == engineOut[1].input

LastResult == engineOut[1].result

\* C7: for every Controllable input with approved >= actual the engine returns
\* passed_through_variance = variance * consumer share of controllable_gains
\* and disallowed_variance = 0.
C7_ControllableGain ==
    (engineOut # <<>> /\ LastInput.category = "Controllable"
        /\ FGe(LastInput.approved, LastInput.actual))
    => /\ LastResult.passed_through_variance
            = FMul(FSub(LastInput.approved, LastInput.actual),
                   engineOut[1].config.controllable_gains.consumer_share)
       /\ LastResult.disallowed_variance = Zero

C7_Witness ==
    /\ engineOut # <<>>
    /\ LastInput.category = "Controllable"
    /\ FGt(LastInput.approved, LastInput.actual)
    /\ engineOut[1].config = StandardConfig
    /\ LastResult.passed_through_variance = FromRatio(10, 1)

\* C8: for every Controllable input with approved < actual the engine returns
\* disallowed_variance = |variance| and passed_through_variance = 0.
C8_ControllableLoss ==
    (engineOut # <<>> /\ LastInput.category = "Controllable"
        /\ FGt(LastInput.actual, LastInput.approved))
    => /\ LastResult.disallowed_variance
            = FAbs(FSub(LastInput.approved, LastInput.actual))
       /\ LastResult.passed_through_variance = Zero

C8_Witness ==
    /\ engineOut # <<>>
    /\ LastInput.category = "Controllable"
    /\ FGt(LastInput.actual, LastInput.approved)
    /\ LastResult.disallowed_variance = FromRatio(30, 1)

\* C9: for every Uncontrollable input, gain or loss, the engine returns
\* passed_through_variance = approved - actual (signed) and disallowed_variance = 0.
C9_Uncontrollable ==
    (engineOut # <<>> /\ LastInput.category = "Uncontrollable")
    => /\ LastResult.passed_through_variance
            = FSub(LastInput.approved, LastInput.actual)
       /\ LastResult.disallowed_variance = Zero

C9_Witness ==
    /\ engineOut # <<>>
    /\ LastInput.category = "Uncontrollable"
    /\ FGt(LastInput.actual, LastInput.approved)
    /\ LastResult.passed_through_variance = FNeg(FromRatio(30, 1))

SameCall == /\ memo # <<>>
            /\ engineOut # <<>>
            /\ memo[1].input = LastInput
            /\ memo[1].config = engineOut[1].config

-----------------------------------------------------------------------------
(* Properties of the audit store, checked under SpecAudit *)

\* C11: the audit store is append-only: in every step each record of the
\* store stays at its position with its content unchanged, and every record
\* a step adds is placed after them; a record that is a correction names the
\* id of a record that was already in the store.
C11_AppendOnly ==
    [][/\ Len(auditStore') >= Len(auditStore)
       /\ \A i \in 1..Len(auditStore) : auditStore'[i] = auditStore[i]
       /\ \A i \in (Len(auditStore) + 1)..Len(auditStore') :
             auditStore'[i].supersedes # 0
             => \E j \in 1..Len(auditStore) : auditStore[j].id = auditStore'[i].supersedes
      ]_vars

C11_Witness ==
    /\ Len(auditStore) = 2
    /\ auditStore[1].supersedes = 0
    /\ auditStore[2].supersedes = auditStore[1].id
    /\ auditStore[2].result # auditStore[1].result

\* C12: concurrent emits lose no write: the store holds exactly as many
\* records as emit() calls have returned, and the ids of its records are
\* pairwise distinct and increase along the store.
C12_NoLostWrite ==
    /\ Len(auditStore) = emitDone
    /\ \A i, j \in 1..Len(auditStore) : i < j => auditStore[i].id < auditStore[j].id

\* two emits that began on the same store length have both returned
C12_Witness ==
    /\ emitDone = 2
    /\ \A e \in Emitters : emitCall[e].state = "done" /\ emitCall[e].seen = 0
    /\ Len(auditStore) = 2
    /\ auditStore[1].id # auditStore[2].id

\* a result without the moment it was computed at
ExceptTimestamp(result) == [result EXCEPT !.timestamp = 0]

\* the engine run again, now, on the snapshot of a record under the record's config
Rerun(rec) == processVariance(rec.config_version, ReadSnapshot(rec), now)

C14_ChecksumMatches ==
    \A i \in 1..Len(auditStore) :
        auditStore[i].checksum
            = Hash(Serialize(auditStore[i].result, ReadSnapshot(auditStore[i])))

\* two records of different inputs, each with the checksum of its own content
C14_Witness ==
    /\ Len(auditStore) = 2
    /\ auditStore[1].input_snapshot # auditStore[2].input_snapshot
    /\ auditStore[1].checksum # auditStore[2].checksum
    /\ C14_ChecksumMatches

-----------------------------------------------------------------------------
(* Properties of loading, checked under SpecLoad *)

\* the pair sums to 1
ValidSharePair(pair) == FAdd(pair.utility_share, pair.consumer_share) = FromRatio(1, 1)

ValidConfig(config) ==
    /\ ValidSharePair(config.controllable_gains)
    /\ ValidSharePair(config.controllable_losses)
    /\ ValidSharePair(config.uncontrollable_variances)

\* C15: a configuration with a sharing pair that does not sum to 1 is
\* rejected at load: no engine holds such a configuration and no
\* computation has run with one.
C15_InvalidConfigRejected ==
    /\ ValidConfig(engineConfig)
    /\ engineOut # <<>> => ValidConfig(engineOut[1].config)

\* C18: an engine call on an input whose head or category is outside the
\* closed enumeration fails with UnknownHead or UnknownCategory; it is never
\* computed under the rule of another category.
C18_UnknownRejected ==
    engineOut # <<>> =>
        /\ LastInput.head \notin CostHeads => engineOut[1].outcome = "UnknownHead"
        /\ LastInput.category \notin Categories
              => /\ engineOut[1].outcome = "UnknownCategory"
                 /\ LastResult.logic_applied
                       # "Uncontrollable Variance fully passed through to Consumer."

-----------------------------------------------------------------------------
(* Further properties of the engine, checked under SpecEngine *)

\* two calls under one config on inputs that differ at most in anomaly_score
AnomalyPair ==
    /\ memo # <<>>
    /\ engineOut # <<>>
    /\ memo[1].config = engineOut[1].config
    /\ [memo[1].input EXCEPT !.anomaly_score = <<>>]
           = [LastInput EXCEPT !.anomaly_score = <<>>]

Flagged(result) ==
    \E i \in 1..Len(result.metadata.flags) : result.metadata.flags[i] = "HIGH_ANOMALY_FLAG"

\* C16: the anomaly score is advisory: the flags of a result contain
\* HIGH_ANOMALY_FLAG exactly when the input has an anomaly score above 0.8,
\* and two calls on inputs that differ only in the anomaly score both succeed
\* with the same variance, disallowed and passed-through amounts.
C16_AnomalyAdvisory ==
    /\ engineOut # <<>> =>
          (Flagged(LastResult) <=>
               /\ LastInput.anomaly_score # <<>>
               /\ FGt(LastInput.anomaly_score[1], FromRatio(8, 10)))
    /\ AnomalyPair =>
          /\ memo[1].outcome = "ok" /\ engineOut[1].outcome = "ok"
          /\ memo[1].result.variance_amount = LastResult.variance_amount
          /\ memo[1].result.disallowed_variance = LastResult.disallowed_variance
          /\ memo[1].result.passed_through_variance = LastResult.passed_through_variance

\* a flagged and an unflagged call on inputs equal up to the score, one at 0.8
C16_Witness ==
    /\ AnomalyPair
    /\ memo[1].input.anomaly_score = <<FromRatio(85, 100)>>
    /\ LastInput.anomaly_score = <<FromRatio(8, 10)>>
    /\ Flagged(memo[1].result) /\ ~Flagged(LastResult)
    /\ LastResult.passed_through_variance # Zero

\* C17: the engine's arithmetic is exact at the minor currency unit: for
\* approved 100.55 and actual 100.56 under Uncontrollable the variance is
\* exactly -0.01 and the passed-through amount is exactly -0.01.
C17_ExactAtMinorUnit ==
    (/\ engineOut # <<>>
     /\ LastInput.category = "Uncontrollable"
     /\ LastInput.approved = FromRatio(10055, 100)
     /\ LastInput.actual = FromRatio(10056, 100))
    => /\ LastResult.variance_amount = FNeg(FromRatio(1, 100))
       /\ LastResult.passed_through_variance = FNeg(FromRatio(1, 100))

\* the sharing ratios the rule text of a result states
RatiosNamed(logicStr) ==
    CASE logicStr = "Controllable Gain (Savings) split 2/3 Utility, 1/3 Consumer."
           -> Share(FromRatio(2, 3), FromRatio(1, 3))
      [] logicStr = "Controllable Loss fully borne by Utility (Disallowed)."
           -> Share(FromRatio(1, 1), Zero)
      [] logicStr = "Uncontrollable Variance fully passed through to Consumer."
           -> Share(Zero, FromRatio(1, 1))

\* C19: the rule text of a result states the ratios of the config the engine
\* was given: engines with different configs attach their own ratios.
C19_RuleTextFromConfig ==
    engineOut # <<>> =>
        RatiosNamed(LastResult.logic_applied)
            = SelectedPair(engineOut[1].config, LastInput,
                           IsGain(LastResult.variance_amount))

-----------------------------------------------------------------------------
(* The decision log, checked under SpecGate *)

EntriesOf(id) == {i \in 1..Len(decisionLog) : decisionLog[i].mapping_id = id}

-----------------------------------------------------------------------------
(* Frame and shape of the engine's results, checked under SpecEngine *)

\* the step is a call of processVariance
Invoked == engineOut' # engineOut \/ memo' # memo

\* C21: a call of processVariance leaves the CostInput it was given and the
\* config held by the engine as they were, and the result is computed under
\* that config; the config of an engine changes only by constructing an
\* engine, never in a step that is a call.
C21_CallLeavesInputAndConfig ==
    [][/\ Invoked => /\ engineConfig' = engineConfig
                     /\ probe' = probe
                     /\ engineOut'[1].config = engineConfig
                     /\ engineOut'[1].input \in {probe} \cup DirectInputs
       /\ engineConfig' # engineConfig => engineOut' = engineOut /\ memo' = memo
      ]_vars

\* two calls of one engine under a config whose loss pair is not (1, 0)
C21_Witness ==
    /\ memo # <<>>
    /\ engineOut # <<>>
    /\ memo[1].input # LastInput
    /\ memo[1].config = engineConfig
    /\ engineOut[1].config = engineConfig
    /\ engineConfig = AltConfig
    /\ LastInput = probe

\* C24: an input with approved equal to actual is treated as a gain: the
\* variance, the disallowed and the passed-through amount are 0 for every
\* category, and a Controllable input is computed under the gain rule with
\* the controllable_gains pair.
C24_ZeroVarianceIsGain ==
    (engineOut # <<>> /\ LastInput.approved = LastInput.actual)
    => /\ LastResult.variance_amount = Zero
       /\ LastResult.disallowed_variance = Zero
       /\ LastResult.passed_through_variance = Zero
       /\ IsGain(LastResult.variance_amount)
       /\ LastInput.category = "Controllable"
            => /\ LastResult.logic_applied
                     = "Controllable Gain (Savings) split 2/3 Utility, 1/3 Consumer."
               /\ LastResult.scenario[2] = "Gain Sharing"

C24_Witness ==
    /\ engineOut # <<>>
    /\ LastInput.approved = LastInput.actual
    /\ LastInput.category = "Controllable"
    /\ LastResult.scenario[2] = "Gain Sharing"
    /\ LastResult.passed_through_variance = Zero

\* two calls on one input under different configs
SameInputOtherConfig ==
    /\ memo # <<>>
    /\ engineOut # <<>>
    /\ memo[1].input = LastInput
    /\ memo[1].config # engineOut[1].config

ControllableGain(ecall) ==
    ecall.input.category = "Controllable" /\ IsGain(ecall.result.variance_amount)

\* C25: for a Controllable loss and for every Uncontrollable input the
\* disallowed and the passed-through amount do not depend on the configured
\* pairs: two calls on the same input under different configs return the
\* same two amounts unless the input is a Controllable gain.
C25_SharesOnlyForControllableGain ==
    (SameInputOtherConfig /\ ~ControllableGain(engineOut[1]))
    => /\ memo[1].result.disallowed_variance = LastResult.disallowed_variance
       /\ memo[1].result.passed_through_variance = LastResult.passed_through_variance

\* a Controllable loss computed under two configs with different loss pairs
C25_Witness ==
    /\ SameInputOtherConfig
    /\ LastInput.category = "Controllable"
    /\ ~IsGain(LastResult.variance_amount)
    /\ LastResult.disallowed_variance = FromRatio(30, 1)
    /\ memo[1].result.disallowed_variance = FromRatio(30, 1)
    /\ memo[1].config.controllable_losses # engineOut[1].config.controllable_losses

FLe(a, b) == FGe(b, a)

\* C27: for every input with non-negative amounts and every config with
\* shares in [0, 1]: the disallowed amount is not negative; the disallowed
\* and the passed-through amount are never both non-zero; and for a
\* Controllable input the passed-through amount lies between 0 and |variance|.
C27_AmountRanges ==
    engineOut # <<>> =>
        /\ FGe0(LastResult.disallowed_variance)
        /\ LastResult.disallowed_variance = Zero
              \/ LastResult.passed_through_variance = Zero
        /\ LastInput.category = "Controllable"
              => /\ FGe0(LastResult.passed_through_variance)
                 /\ FLe(LastResult.passed_through_variance,
                        FAbs(LastResult.variance_amount))

\* an Uncontrollable loss (negative pass-through, nothing disallowed) after a
\* Controllable gain with a pass-through strictly between 0 and the variance
C27_Witness ==
    /\ memo # <<>>
    /\ engineOut # <<>>
    /\ memo[1].input.category = "Controllable"
    /\ FGt(memo[1].result.passed_through_variance, Zero)
    /\ FGt(memo[1].result.variance_amount, memo[1].result.passed_through_variance)
    /\ LastInput.category = "Uncontrollable"
    /\ ~FGe0(LastResult.passed_through_variance)
    /\ LastResult.disallowed_variance = Zero

-----------------------------------------------------------------------------
(* The split of a variance, checked under SpecLoad *)

\* C26: whenever the sharing pair selected for an input sums to 1, the
\* utility impact plus the consumer impact equals |variance|.
C26_SplitConserves ==
    engineOut # <<>> =>
        LET variance == LastResult.variance_amount
            pair == SelectedPair(engineOut[1].config, LastInput, IsGain(variance))
        IN  ValidSharePair(pair)
            => FAdd(UtilityImpact(variance, pair), ConsumerImpact(variance, pair))
                   = FAbs(variance)

-----------------------------------------------------------------------------
(* Properties of the SnapshotEngine, checked under SpecSnapshot *)

Stored == {id \in SnapshotIds : snapshots[id] # <<>>}

\* the sum of the variance amounts of the first n results, added in order
RECURSIVE SumVariance(_, _)
SumVariance(results, n) ==
    IF n = 0 THEN Zero
    ELSE FAdd(SumVariance(results, n - 1), results[n].variance_amount)

\* C22: every snapshot built by createSnapshot holds exactly one engine
\* result per input, in input order, and its total_revenue_gap is the sum of
\* the variance_amount of those results.
C22_TotalIsSumOfResults ==
    \A id \in Stored :
        LET snap == snapshots[id][1]
        IN  /\ Len(snap.results) = Len(snap.inputs)
            /\ \A i \in 1..Len(snap.inputs) :
                  snap.results[i]
                      = processVariance(engineConfig, snap.inputs[i], snap.created_at)
            /\ snap.total_revenue_gap = SumVariance(snap.results, Len(snap.results))

\* a snapshot of two different inputs with a total that is neither variance
C22_Witness ==
    \E id \in Stored :
        LET snap == snapshots[id][1]
        IN  /\ Len(snap.results) = 2
            /\ snap.results[1].cost_head = "Interest"
            /\ snap.results[2].cost_head = "O&M"
            /\ snap.total_revenue_gap # snap.results[1].variance_amount
            /\ snap.total_revenue_gap # snap.results[2].variance_amount
            /\ snapshotCall[1].op = "createSnapshot"
            /\ snapshotCall[1].returned = snap

\* the sum of the deltas of the first n line items, added in order
RECURSIVE SumDelta(_, _)
SumDelta(items, n) ==
    IF n = 0 THEN Zero ELSE FAdd(SumDelta(items, n - 1), items[n].delta)

ComparedOk ==
    /\ snapshotCall # <<>>
    /\ snapshotCall[1].op = "compare"
    /\ snapshotCall[1].outcome = "ok"

\* C28: compare(A, B) returns max(|A.results|, |B.results|) line items, a
\* missing side counted as variance 0; their deltas sum to the delta of the
\* report, which is B.total_revenue_gap minus A.total_revenue_gap; and the
\* direction is FAVORABLE, ADVERSE or NEUTRAL exactly when the delta is
\* positive, negative or zero.
C28_DeltaReport ==
    ComparedOk =>
        LET r == snapshotCall[1].returned[1]
            a == snapshots[snapshotCall[1].a][1]
            b == snapshots[snapshotCall[1].b][1]
            n == MaxInt(Len(a.results), Len(b.results))
        IN  /\ Len(r.line_items) = n
            /\ \A i \in 1..n :
                  /\ r.line_items[i].scenario_a_variance
                        = IF i <= Len(a.results) THEN a.results[i].variance_amount ELSE Zero
                  /\ r.line_items[i].scenario_b_variance
                        = IF i <= Len(b.results) THEN b.results[i].variance_amount ELSE Zero
            /\ SumDelta(r.line_items, n) = r.delta
            /\ r.delta = FSub(b.total_revenue_gap, a.total_revenue_gap)
            /\ r.impact_direction = "FAVORABLE" <=> FGt(r.delta, Zero)
            /\ r.impact_direction = "ADVERSE" <=> FGt(Zero, r.delta)
            /\ r.impact_direction = "NEUTRAL" <=> r.delta = Zero

\* C29: createSnapshot under an id that is already stored replaces the
\* stored snapshot and the number of stored snapshots does not grow; the
\* snapshot stored under an id is always the one the latest createSnapshot
\* for that id returned, and it is the one compare() reports on; compare()
\* with an id that is not stored throws and leaves the store as it is.
C29_ReplaceAndThrow ==
    /\ [](snapshotCall # <<>> =>
            /\ snapshotCall[1].op = "createSnapshot"
                  => snapshots[snapshotCall[1].id] = <<snapshotCall[1].returned>>
            /\ snapshotCall[1].op = "compare"
                  => /\ snapshotCall[1].outcome = "Error"
                          <=> ~({snapshotCall[1].a, snapshotCall[1].b} \subseteq Stored)
                     /\ snapshotCall[1].outcome = "ok"
                          => snapshotCall[1].returned[1].scenario_a.revenue_gap
                                = snapshots[snapshotCall[1].a][1].total_revenue_gap)
    /\ [][snapshotCall' # snapshotCall =>
            /\ snapshotCall'[1].op = "compare" => snapshots' = snapshots
            /\ snapshotCall'[1].op = "createSnapshot"
                  => /\ \A id \in SnapshotIds \ {snapshotCall'[1].id} :
                           snapshots'[id] = snapshots[id]
                     /\ snapshots[snapshotCall'[1].id] # <<>>
                           => Cardinality({id \in SnapshotIds : snapshots'[id] # <<>>})
                                 = Cardinality(Stored)]_vars

\* a compare() with an id that is not stored has thrown, the store holding
\* one snapshot of two inputs
C29_Witness ==
    /\ snapshotCall # <<>>
    /\ snapshotCall[1].op = "compare"
    /\ snapshotCall[1].outcome = "Error"
    /\ Stored = {"base_case"}
    /\ Len(snapshots["base_case"][1].inputs) = 2

-----------------------------------------------------------------------------
(* Properties of the Mapping Workbench, checked under SpecWorkbench *)

Prompts == {"Please provide a comment",
            "Please provide a comment and override category",
            "Please provide a reason for rejection"}

\* C23: the workbench posts a decision only with a comment that is not
\* blank, and an Override only with an override head that is not blank; a
\* handler that prompts for the missing text posts nothing and leaves every
\* suggestion as it was.
C23_BlankCommentNotSent ==
    [][\A c \in Clients :
          /\ (call[c].state = "idle" /\ call'[c].state = "inflight")
                => /\ Trim(call'[c].req[1].comment) # <<>>
                   /\ call'[c].req[1].decision = "Overridden"
                         => call'[c].req[1].override_head \notin {"", " "}
          /\ (toast'[c] # toast[c] /\ toast'[c] \in Prompts)
                => /\ call' = call
                   /\ suggestions' = suggestions
                   /\ decisionLog' = decisionLog]_vars

\* an officer was prompted for a comment while the suggestion is Pending,
\* and the other officer's Reject with a padded comment went through
C23_Witness ==
    \E c, d \in Clients :
        /\ toast[c] = "Please provide a comment"
        /\ call[c].state = "idle"
        /\ call[d].state = "done"
        /\ call[d].outcome = "ok"
        /\ call[d].req[1].comment = <<" ", "r", " ">>
        /\ call[d].req[1].decision = "Rejected"
        /\ \E id \in 1..Len(suggestions) : suggestions[id].status = "Pending"

-----------------------------------------------------------------------------
(* Properties of HttpClient.request, checked under SpecHttpFair *)

\* what holds of one call at every moment
RequestBounded(req) ==
    /\ req.refreshes <= 1
    /\ req.fetches <= 2
    /\ req.fetches = 2 => req.isRetry /\ req.refreshes = 1
    /\ req.isRetry => req.refreshes = 1
    /\ req.pc = "refreshing" => ~req.isRetry /\ req.response = <<401>>
    /\ req.response = <<429>>
          => req.pc = "done" /\ req.outcome = "ApiError" /\ req.status = <<429>>
    /\ (req.response = <<401>> /\ req.isRetry /\ req.fetches = 2)
          => req.pc = "done" /\ req.outcome = "ApiError" /\ req.status = <<401>>
    /\ (req.response = <<401>> /\ ~req.isRetry) => req.refreshes = 1

\* the step in which the refresh of call r fails
RefreshFails(r) ==
    /\ requests[r].pc # "done"
    /\ requests'[r].pc = "done"
    /\ ~requests'[r].isRetry
    /\ requests'[r].response = <<401>>

====
